---- MODULE Spec2Model ----
(***************************************************************************)
(* Model of the demo001 package: the table builders of baseline.py,        *)
(* population.py and safety.py.  A polars DataFrame is a sequence of       *)
(* records (its rows, in order); a Python list of lists is a sequence of   *)
(* sequences; every string is a TLA+ string, read character by character   *)
(* with SubSeq.  group_by without maintain_order returns its groups in an  *)
(* order the caller cannot choose: every call site takes that order as a   *)
(* permutation picked by the action.                                       *)
(***************************************************************************)
EXTENDS Integers, Sequences, FiniteSets, TLC

VARIABLES report, adsl, adsl_columns, adae, pop_counts, treatments, out

vars == <<report, adsl, adsl_columns, adae, pop_counts, treatments, out>>

\* ------------------------------------------------------------------ bounds
\* rows of the subject-level dataset
MaxSubjects == 3
\* rows of the adverse-event dataset
MaxEvents == 2

\* ------------------------------------------------------------ sequences
Range(s) == {s[i] : i \in DOMAIN s}


\* the distinct values of s in order of first occurrence
RECURSIVE UniqueStable(_)
UniqueStable(s) ==
    IF s = <<>> THEN <<>>
    ELSE LET init == UniqueStable(SubSeq(s, 1, Len(s) - 1))
             last == s[Len(s)]
         IN IF last \in Range(init) THEN init ELSE Append(init, last)

\* all orderings of a sequence's elements: the orders a group_by may return
Perms(s) ==
    {[i \in 1..Len(s) |-> s[p[i]]] :
        p \in {q \in [1..Len(s) -> 1..Len(s)] : Cardinality(Range(q)) = Len(s)}}

\* ---------------------------------------------------------------- strings
\* the characters the datasets use, in code-point order
Alphabet == " %0123456789ABCDEFGHIJKLMNOPQRSTUVWXYZabcdefghijklmnopqrstuvwxyz"
UpperCase == "ABCDEFGHIJKLMNOPQRSTUVWXYZ"
LowerCase == "abcdefghijklmnopqrstuvwxyz"
Digits == "0123456789"

CharAt(s, i) == SubSeq(s, i, i)
Chars(s) == {CharAt(s, i) : i \in 1..Len(s)}
IndexIn(c, letters) == CHOOSE i \in 1..Len(letters) : CharAt(letters, i) = c

\* the code-point rank of a character, and the case mappings
CodePoint == [c \in Chars(Alphabet) |-> IndexIn(c, Alphabet)]
UpperOf == [c \in Chars(LowerCase) |-> CharAt(UpperCase, IndexIn(c, LowerCase))]
LowerOf == [c \in Chars(UpperCase) |-> CharAt(LowerCase, IndexIn(c, UpperCase))]
IsAlpha(c) == c \in DOMAIN UpperOf \/ c \in DOMAIN LowerOf
IsAlnum(c) == IsAlpha(c) \/ c \in Chars(Digits)
ToUpperChar(c) == IF c \in DOMAIN UpperOf THEN UpperOf[c] ELSE c
ToLowerChar(c) == IF c \in DOMAIN LowerOf THEN LowerOf[c] ELSE c

\* Python None / polars null
NULL == "<null>"

\* polars str.to_titlecase: lower-case everything, then upper-case each
\* character that follows a non-alphanumeric one (or starts the string)
RECURSIVE TitleFrom(_, _, _)
TitleFrom(s, i, boundary) ==
    IF i > Len(s) THEN ""
    ELSE LET c == CharAt(s, i)
         IN (IF boundary THEN ToUpperChar(c) ELSE ToLowerChar(c))
            \o TitleFrom(s, i + 1, ~IsAlnum(c))
to_titlecase(s) == IF s = NULL THEN NULL ELSE TitleFrom(s, 1, TRUE)

\* Python str.title: a letter is upper-cased when the previous character is
\* not a letter, lower-cased otherwise
RECURSIVE PyTitleFrom(_, _, _)
PyTitleFrom(s, i, boundary) ==
    IF i > Len(s) THEN ""
    ELSE LET c == CharAt(s, i)
         IN (IF boundary THEN ToUpperChar(c) ELSE ToLowerChar(c))
            \o PyTitleFrom(s, i + 1, ~IsAlpha(c))
title(s) == PyTitleFrom(s, 1, TRUE)

\* a < b in code-point order (the order polars sorts strings in)
RECURSIVE StrLess(_, _)
StrLess(a, b) ==
    IF b = "" THEN FALSE
    ELSE IF a = "" THEN TRUE
    ELSE IF CharAt(a, 1) = CharAt(b, 1) THEN StrLess(Tail(a), Tail(b))
    ELSE CodePoint[CharAt(a, 1)] < CodePoint[CharAt(b, 1)]

\* nulls sort first
NullsFirstLess(a, b) ==
    IF a = NULL THEN b # NULL ELSE IF b = NULL THEN FALSE ELSE StrLess(a, b)

\* Series.sort() of distinct values, ascending
RECURSIVE SortStrings(_)
SortStrings(S) ==
    IF S = {} THEN <<>>
    ELSE LET least == CHOOSE x \in S : \A y \in S \ {x} : NullsFirstLess(x, y)
         IN <<least>> \o SortStrings(S \ {least})

\* Python str.replace(old, new), old non-empty: leftmost occurrences, no overlap
RECURSIVE Replace(_, _, _)
Replace(s, old, new) ==
    IF Len(s) < Len(old) THEN s
    ELSE IF SubSeq(s, 1, Len(old)) = old
         THEN new \o Replace(SubSeq(s, Len(old) + 1, Len(s)), old, new)
         ELSE CharAt(s, 1) \o Replace(Tail(s), old, new)

\* ---------------------------------------------------------------- numbers
\* an optional integer: <<>> is null, <<k>> is k
NoInt == <<>>
SomeInt(k) == <<k>>
FillNull(v, d) == IF v = NoInt THEN d ELSE v[1]

\* a Float64 that was rounded to one decimal: a number of tenths, or NaN, inf, null
Num(t) == [kind |-> "num", tenths |-> t]
NaN == [kind |-> "nan", tenths |-> 0]
Inf == [kind |-> "inf", tenths |-> 0]
NullFloat == [kind |-> "null", tenths |-> 0]

\* round(num / den) for num >= 0, den > 0 (no tie is rounded within the bounds)
RoundDiv(num, den) == (2 * num + den) \div (2 * den)

\* the division the wrong way round: 100 * d / n
PercentInverted(n, d) ==
    IF n = 0 THEN (IF d = 0 THEN NaN ELSE Inf)
    ELSE Num(RoundDiv(1000 * d, n))

\* (100.0 * n / d).round(1): IEEE division, so n / 0 is inf and 0 / 0 is NaN
Percent(n, d) ==
    IF d = 0 THEN (IF n = 0 THEN NaN ELSE Inf)
    ELSE Num(RoundDiv(1000 * n, d))

\* Float64 -> String for a value with one decimal
FloatToStr(f) ==
    CASE f.kind = "nan" -> "NaN"
      [] f.kind = "inf" -> "inf"
      [] f.kind = "null" -> NULL
      [] OTHER -> ToString(f.tenths \div 10) \o "." \o ToString(f.tenths % 10)

\* pl.format / concat_str: a null argument makes the result null
Format(parts) == IF NULL \in Range(parts) THEN NULL ELSE
    LET RECURSIVE Join(_)
        Join(ps) == IF ps = <<>> THEN "" ELSE Head(ps) \o Join(Tail(ps))
    IN Join(parts)

\* -------------------------------------------------------------- safety.py
\* the filter expressions create_ae_summary passes to count_participants
Conditions ==
    {"None", "drug_related", "serious", "serious_drug_related", "fatal", "withdrawn"}
RelatedValues == {"POSSIBLE", "PROBABLE", "DEFINITE", "RELATED"}
Holds(condition, row) ==
    CASE condition = "drug_related" -> row.AEREL \in RelatedValues
      [] condition = "serious" -> row.AESER = "Y"
      [] condition = "serious_drug_related" ->
            row.AESER = "Y" /\ row.AEREL \in RelatedValues
      [] condition = "fatal" -> row.AEOUT = "FATAL"
      [] condition = "withdrawn" -> row.AEACN = "DRUG WITHDRAWN"
      [] OTHER -> TRUE

Column(df, name) == [i \in DOMAIN df |-> df[i][name]]

\* Series.n_unique(): the number of distinct values of a column
n_unique(col) == Len(UniqueStable(col))

\* df.filter(condition) of count_participants
FilterCondition(df, condition) ==
    IF condition = "None" THEN df ELSE SelectSeq(df, LAMBDA r : Holds(condition, r))

\* the aggregation with pl.len() in place of n_unique(): events, not subjects
EventCountAgg(rows) == Len(rows)

\* df.group_by("TRT01A").agg(n=pl.col("USUBJID").n_unique()), groups in order ord
UniqueSubjectsAgg(rows) == n_unique(Column(rows, "USUBJID"))
GroupCounts(df, ord) ==
    [i \in DOMAIN ord |->
        [TRT01A |-> ord[i],
         n |-> UniqueSubjectsAgg(SelectSeq(df, LAMBDA r : r.TRT01A = ord[i]))]]

\* the orders in which group_by("TRT01A") may return the groups of df
GroupOrders(df) == Perms(UniqueStable(Column(df, "TRT01A")))

RECURSIVE Flatten(_)
Flatten(ss) == IF ss = <<>> THEN <<>> ELSE Head(ss) \o Flatten(Tail(ss))

\* the join with how="inner": a level without counts is dropped
InnerJoinCounts(treatment_levels, counts) ==
    Flatten([i \in DOMAIN treatment_levels |->
        LET t == treatment_levels[i].TRT01A
            hits == SelectSeq(counts, LAMBDA c : c.TRT01A = t)
        IN [j \in DOMAIN hits |-> [TRT01A |-> t, n |-> SomeInt(hits[j].n)]]])

\* treatment_levels.join(counts, on="TRT01A", how="left"): every left row, in
\* order, once per matching right row, or once with a null n
LeftJoinCounts(treatment_levels, counts) ==
    Flatten([i \in DOMAIN treatment_levels |->
        LET t == treatment_levels[i].TRT01A
            hits == SelectSeq(counts, LAMBDA c : c.TRT01A = t)
        IN IF hits = <<>> THEN <<[TRT01A |-> t, n |-> NoInt]>>
           ELSE [j \in DOMAIN hits |-> [TRT01A |-> t, n |-> SomeInt(hits[j].n)]]])

\* count_participants, for the group order ord of its group_by
count_participants(df, treatment_levels, condition, ord) ==
    LET joined == LeftJoinCounts(treatment_levels,
                                 GroupCounts(FilterCondition(df, condition), ord))
    IN [i \in DOMAIN joined |->
            [TRT01A |-> joined[i].TRT01A, n |-> FillNull(joined[i].n, 0)]]

\* every table count_participants may return
CountParticipantsOutcomes(df, treatment_levels, condition) ==
    {count_participants(df, treatment_levels, condition, ord) :
        ord \in GroupOrders(FilterCondition(df, condition))}

\* the categories of create_ae_summary after the population row, with the
\* condition each passes to count_participants
AeCategories ==
    << [category |-> "With any adverse event", condition |-> "None"],
       [category |-> "With drug-related adverse event", condition |-> "drug_related"],
       [category |-> "With serious adverse event", condition |-> "serious"],
       [category |-> "With serious drug-related adverse event",
        condition |-> "serious_drug_related"],
       [category |-> "Who died", condition |-> "fatal"],
       [category |-> "Discontinued due to adverse event", condition |-> "withdrawn"] >>

PopulationCategory == "Participants in population"

WithCategory(df, category) ==
    [i \in DOMAIN df |-> [TRT01A |-> df[i].TRT01A, n |-> df[i].n, category |-> category]]

\* pop_counts.with_columns(category=...).rename({"N": "n"})
PopRow(counts) ==
    [i \in DOMAIN counts |->
        [TRT01A |-> counts[i].TRT01A, n |-> counts[i].N, category |-> PopulationCategory]]

\* every table create_ae_summary may return: pl.concat of one outcome per category
RECURSIVE ConcatOutcomes(_)
ConcatOutcomes(sets) ==
    IF sets = <<>> THEN {<<>>}
    ELSE {h \o t : h \in Head(sets), t \in ConcatOutcomes(Tail(sets))}
create_ae_summary(adae_safety, counts, treatment_levels) ==
    ConcatOutcomes(<<{PopRow(counts)}>> \o
        [k \in DOMAIN AeCategories |->
            {WithCategory(t, AeCategories[k].category) :
                t \in CountParticipantsOutcomes(adae_safety, treatment_levels,
                                                AeCategories[k].condition)}])

\* pct of format_ae_summary: None on the population row, else (100.0 * n / N).round(1)
AePct(category, n, N) ==
    IF category = PopulationCategory THEN NullFloat
    ELSE IF N = NoInt THEN NullFloat
    ELSE Percent(n, N[1])

\* pct_display of format_ae_summary
AePctDisplay(category, pct) ==
    IF category = PopulationCategory THEN ""
    ELSE Format(<<"(", FloatToStr(IF pct.kind = "null" THEN Num(0) ELSE pct), ")">>)

\* format_ae_summary: left join with pop_counts on TRT01A, then the display columns
format_ae_summary(ae_summary, counts) ==
    Flatten([i \in DOMAIN ae_summary |->
        LET r == ae_summary[i]
            hits == SelectSeq(counts, LAMBDA c : c.TRT01A = r.TRT01A)
            Ns == IF hits = <<>> THEN <<NoInt>>
                  ELSE [j \in DOMAIN hits |-> SomeInt(hits[j].N)]
        IN [j \in DOMAIN Ns |->
              LET pct == AePct(r.category, r.n, Ns[j])
              IN [TRT01A |-> r.TRT01A, n |-> r.n, category |-> r.category,
                  N |-> Ns[j], pct |-> pct,
                  n_display |-> ToString(r.n),
                  pct_display |-> AePctDisplay(r.category, pct)]]])

\* ------------------------------------------------ create_ae_by_soc_table
\* adae_safety.with_columns(AEDECOD_STD, AEBODSYS_STD): the title-cased columns
AeStd(adae_safety) ==
    [i \in DOMAIN adae_safety |->
        [USUBJID |-> adae_safety[i].USUBJID, TRT01A |-> adae_safety[i].TRT01A,
         AEBODSYS_STD |-> to_titlecase(adae_safety[i].AEBODSYS),
         AEDECOD_STD |-> to_titlecase(adae_safety[i].AEDECOD)]]

\* the keys of group_by(["TRT01A", "AEBODSYS_STD", "AEDECOD_STD"])
SocKey(r) ==
    [TRT01A |-> r.TRT01A, AEBODSYS_STD |-> r.AEBODSYS_STD,
     AEDECOD_STD |-> r.AEDECOD_STD]
SocGroupOrders(adae_safety) ==
    LET std == AeStd(adae_safety)
    IN Perms(UniqueStable([i \in DOMAIN std |-> SocKey(std[i])]))

SocKeyLess(a, b) ==
    \/ NullsFirstLess(a.AEBODSYS_STD, b.AEBODSYS_STD)
    \/ /\ a.AEBODSYS_STD = b.AEBODSYS_STD
       /\ \/ NullsFirstLess(a.AEDECOD_STD, b.AEDECOD_STD)
          \/ /\ a.AEDECOD_STD = b.AEDECOD_STD
             /\ NullsFirstLess(a.TRT01A, b.TRT01A)

\* .sort(["AEBODSYS_STD", "AEDECOD_STD", "TRT01A"]) of rows with distinct keys
RECURSIVE SortAeCounts(_)
SortAeCounts(S) ==
    IF S = {} THEN <<>>
    ELSE LET least == CHOOSE x \in S : \A y \in S \ {x} : SocKeyLess(x, y)
         IN <<least>> \o SortAeCounts(S \ {least})

\* ae_counts: the unique-subject count of every (treatment, SOC, term), sorted
AeCounts(adae_safety, ord) ==
    LET std == AeStd(adae_safety)
        grouped == [i \in DOMAIN ord |->
            [TRT01A |-> ord[i].TRT01A, AEBODSYS_STD |-> ord[i].AEBODSYS_STD,
             AEDECOD_STD |-> ord[i].AEDECOD_STD,
             n |-> UniqueSubjectsAgg(SelectSeq(std, LAMBDA r : SocKey(r) = ord[i]))]]
    IN SortAeCounts(Range(grouped))

\* str(pop_counts.filter(pl.col("TRT01A") == t)["N"][0]); <<>> when [0] raises
PopLookup(counts, t) ==
    LET hits == SelectSeq(counts, LAMBDA c : c.TRT01A = t)
    IN IF hits = <<>> THEN <<>> ELSE <<ToString(hits[1].N)>>

Blanks(k) == [i \in 1..k |-> ""]

\* f"  {ae_term}"
PyStr(v) == IF v = NULL THEN "None" ELSE v
Indented(v) == "  " \o PyStr(v)

\* count_data["n"][0] if count_data.height > 0 else 0
TermCount(soc_data, ae_term, trt) ==
    LET count_data == SelectSeq(soc_data,
            LAMBDA c : ae_term # NULL /\ c.AEDECOD_STD = ae_term /\ c.TRT01A = trt)
    IN IF Len(count_data) > 0 THEN count_data[1].n ELSE 0

\* the rows of one SOC: its header row, then one row per term
SocBlock(ae_counts, soc, trts) ==
    LET soc_data == SelectSeq(ae_counts, LAMBDA c : soc # NULL /\ c.AEBODSYS_STD = soc)
        terms == SortStrings(Range(Column(soc_data, "AEDECOD_STD")))
    IN << <<soc>> \o Blanks(Len(trts)) >> \o
       [k \in DOMAIN terms |->
          <<Indented(terms[k])>> \o
          [j \in DOMAIN trts |-> ToString(TermCount(soc_data, terms[k], trts[j]))]]

SocSchema(trts) == <<"System Organ Class / Preferred Term">> \o trts

\* create_ae_by_soc_table, for the group order ord of its group_by
create_ae_by_soc_table(adae_safety, counts, trts, ord) ==
    LET ae_counts == AeCounts(adae_safety, ord)
        lookups == [j \in DOMAIN trts |-> PopLookup(counts, trts[j])]
        socs == SortStrings(Range(Column(ae_counts, "AEBODSYS_STD")))
    IN IF \E j \in DOMAIN trts : lookups[j] = <<>>
       THEN [status |-> "IndexError", schema |-> SocSchema(trts), rows |-> <<>>]
       ELSE [status |-> "ok", schema |-> SocSchema(trts),
             rows |-> << <<PopulationCategory>> \o Flatten(lookups),
                         Blanks(Len(trts) + 1) >> \o
                      Flatten([k \in DOMAIN socs |-> SocBlock(ae_counts, socs[k], trts)])]

\* ------------------------------------------------------------ baseline.py
\* the orders in which group_by("TRT01P") may return the groups of df
PlannedGroupOrders(df) == Perms(UniqueStable(Column(df, "TRT01P")))

RECURSIVE Sum(_)
Sum(xs) == IF xs = <<>> THEN 0 ELSE Head(xs) + Sum(Tail(xs))

\* xs in ascending order
RECURSIVE SortInts(_)
SortInts(xs) ==
    IF xs = <<>> THEN <<>>
    ELSE LET k == CHOOSE i \in DOMAIN xs : \A j \in DOMAIN xs : xs[i] <= xs[j]
         IN <<xs[k]>> \o SortInts([j \in 1..(Len(xs) - 1) |-> IF j < k THEN xs[j] ELSE xs[j + 1]])

\* round(100 * sqrt(num / den)): the least h in lo..hi with
\* 100 * sqrt(num / den) < h + 1/2
RECURSIVE RoundSqrtHundredths(_, _, _, _)
RoundSqrtHundredths(num, den, lo, hi) ==
    IF lo >= hi THEN hi
    ELSE LET mid == (lo + hi) \div 2
         IN IF 40000 * num < (2 * mid + 1) * (2 * mid + 1) * den
            THEN RoundSqrtHundredths(num, den, lo, mid)
            ELSE RoundSqrtHundredths(num, den, mid + 1, hi)

\* pl.col(var).std().round(2) in hundredths: the sample standard deviation,
\* null for fewer than two values
StdHundredths(xs) ==
    LET n == Len(xs)
        num == n * Sum([i \in DOMAIN xs |-> xs[i] * xs[i]]) - Sum(xs) * Sum(xs)
        den == n * (n - 1)
    IN IF n < 2 THEN NoInt ELSE SomeInt(RoundSqrtHundredths(num, den, 0, 2000))

\* pl.col(var).median() in tenths: the middle value, or the mean of the two
\* middle values
MedianTenths(xs) ==
    LET sorted == SortInts(xs)
        n == Len(xs)
    IN IF n % 2 = 1 THEN 10 * sorted[(n + 1) \div 2]
       ELSE 5 * (sorted[n \div 2] + sorted[n \div 2 + 1])

\* summarize_continuous, groups in order ord
summarize_continuous(df, var, ord) ==
    [i \in DOMAIN ord |->
        LET xs == Column(SelectSeq(df, LAMBDA r : r.TRT01P = ord[i]), var)
            sorted == SortInts(xs)
        IN [TRT01P |-> ord[i],
            mean |-> Num(RoundDiv(10 * Sum(xs), Len(xs))),
            sd |-> StdHundredths(xs),
            median |-> Num(MedianTenths(xs)),
            min |-> sorted[1],
            max |-> sorted[Len(sorted)],
            n |-> Len(xs)]]

\* Float64 -> String for a value rounded to two decimals (shortest form)
Float2ToStr(h) ==
    IF h = NoInt THEN NULL
    ELSE IF h[1] % 10 = 0
         THEN ToString(h[1] \div 100) \o "." \o ToString((h[1] % 100) \div 10)
         ELSE ToString(h[1] \div 100) \o "." \o ToString((h[1] % 100) \div 10)
              \o ToString(h[1] % 10)

\* format_continuous_stats: the columns TRT01P, mean_sd, median_range
format_continuous_stats(stats) ==
    [i \in DOMAIN stats |->
        [TRT01P |-> stats[i].TRT01P,
         mean_sd |-> Format(<<FloatToStr(stats[i].mean), " (",
                              Float2ToStr(stats[i].sd), ")">>),
         median_range |-> Format(<<FloatToStr(stats[i].median), " [",
                                   ToString(stats[i].min), ", ",
                                   ToString(stats[i].max), "]">>)]]

\* the keys of group_by(["TRT01P", var])
CategoryKey(r, var) == [TRT01P |-> r.TRT01P, value |-> r[var]]
CategoryGroupOrders(df, var) ==
    Perms(UniqueStable([i \in DOMAIN df |-> CategoryKey(df[i], var)]))

\* summarize_categorical: counts (groups in order ord) joined with the
\* treatment totals (groups in order ord_totals)
summarize_categorical(df, var, ord, ord_totals) ==
    LET counts == [i \in DOMAIN ord |->
            [TRT01P |-> ord[i].TRT01P, value |-> ord[i].value,
             len |-> Len(SelectSeq(df, LAMBDA r : CategoryKey(r, var) = ord[i]))]]
        totals == [i \in DOMAIN ord_totals |->
            [TRT01P |-> ord_totals[i],
             total |-> Len(SelectSeq(df, LAMBDA r : r.TRT01P = ord_totals[i]))]]
    IN Flatten([i \in DOMAIN counts |->
          LET hits == SelectSeq(totals, LAMBDA t : t.TRT01P = counts[i].TRT01P)
          IN [j \in DOMAIN hits |->
                [TRT01P |-> counts[i].TRT01P, value |-> counts[i].value,
                 len |-> counts[i].len, total |-> hits[j].total,
                 pct |-> Percent(counts[i].len, hits[j].total)]]])

\* format_categorical_stats: the columns TRT01P, var, n_pct
format_categorical_stats(stats) ==
    [i \in DOMAIN stats |->
        [TRT01P |-> stats[i].TRT01P, value |-> stats[i].value,
         n_pct |-> Format(<<ToString(stats[i].len), " (",
                            FloatToStr(stats[i].pct), "%)">>)]]

DefaultValue == "0 (0.0%)"

\* get_value: the last column of the first row of the treatment, or the default
get_value(df, last_column, treatment) ==
    LET result == SelectSeq(df, LAMBDA r : r.TRT01P = treatment)
    IN IF Len(result) > 0 THEN result[1][last_column] ELSE DefaultValue

\* the header row of a variable: the label and three blank cells
HeaderRow(label) == <<label, "", "", "">>

ContinuousLabel(var) == IF var = "AGE" THEN title(var) \o " (years)" ELSE title(var)

\* [get_value(...).replace("0 (0.0%)", "") for trt in treatments]; a None value
\* has no replace and raises
StatCells(var_formatted, column, trts) ==
    LET values == [j \in DOMAIN trts |-> get_value(var_formatted, column, trts[j])]
    IN IF NULL \in Range(values) THEN [status |-> "AttributeError", cells |-> <<>>]
       ELSE [status |-> "ok",
             cells |-> [j \in DOMAIN trts |-> Replace(values[j], DefaultValue, "")]]

\* the rows one continuous variable appends, and whether the loop body raised
ContinuousBlock(df, var, trts, ord) ==
    LET var_formatted == format_continuous_stats(summarize_continuous(df, var, ord))
        header == HeaderRow(ContinuousLabel(var))
        mean == StatCells(var_formatted, "mean_sd", trts)
        median == StatCells(var_formatted, "median_range", trts)
    IN IF mean.status # "ok" THEN [status |-> mean.status, rows |-> <<header>>]
       ELSE IF median.status # "ok"
            THEN [status |-> median.status,
                  rows |-> <<header, <<"  Mean (SD)">> \o mean.cells>>]
       ELSE [status |-> "ok",
             rows |-> <<header, <<"  Mean (SD)">> \o mean.cells,
                        <<"  Median [Min, Max]">> \o median.cells>>]

\* the categories of unique() without maintain_order, here in sorted order
CategoriesSorted(df, var) == SortStrings(Range(Column(df, var)) \ {NULL})

\* adsl[var].unique(maintain_order=True).drop_nulls().to_list()
Categories(df, var) == SelectSeq(UniqueStable(Column(df, var)), LAMBDA v : v # NULL)

\* the rows one categorical variable appends
CategoricalBlock(df, var, trts, ord, ord_totals) ==
    LET var_formatted ==
            format_categorical_stats(summarize_categorical(df, var, ord, ord_totals))
        categories == Categories(df, var)
        kept == SelectSeq(categories,
                       LAMBDA c : c \in Range(Column(var_formatted, "value")))
    IN [status |-> "ok",
        rows |-> <<HeaderRow(title(var))>> \o
            [k \in DOMAIN kept |->
                LET cat_data == SelectSeq(var_formatted, LAMBDA r : r.value = kept[k])
                IN <<Indented(kept[k])>> \o
                   [j \in DOMAIN trts |-> get_value(cat_data, "n_pct", trts[j])]]]

ContinuousBlockOutcomes(df, var, trts) ==
    {ContinuousBlock(df, var, trts, ord) : ord \in PlannedGroupOrders(df)}
CategoricalBlockOutcomes(df, var, trts) ==
    {CategoricalBlock(df, var, trts, ord, ord_totals) :
        ord \in CategoryGroupOrders(df, var), ord_totals \in PlannedGroupOrders(df)}

\* the loops of create_baseline_table: the blocks run one after the other
\* until one raises
RECURSIVE RunBlocks(_)
RunBlocks(blocks) ==
    IF blocks = <<>> THEN {[status |-> "ok", rows |-> <<>>]}
    ELSE UNION {
        IF b.status # "ok" THEN {b}
        ELSE {[status |-> rest.status, rows |-> b.rows \o rest.rows] :
                rest \in RunBlocks(Tail(blocks))} : b \in Head(blocks)}

BaselineSchema(trts) == <<"Characteristic">> \o trts

\* pl.DataFrame(rows, schema=..., orient="row"): every row needs one cell per column
DataFrameFromRows(status, rows, schema) ==
    [status |-> IF status # "ok" THEN status
                ELSE IF \E i \in DOMAIN rows : Len(rows[i]) # Len(schema)
                     THEN "ShapeError" ELSE "ok",
     schema |-> schema, rows |-> rows]

\* every outcome of create_baseline_table: the rows it built (table_rows) and
\* whether it returned the table ("ok") or raised
create_baseline_table(df, continuous_vars, categorical_vars, trts) ==
    LET blocks ==
            [i \in DOMAIN continuous_vars |->
                ContinuousBlockOutcomes(df, continuous_vars[i], trts)] \o
            [i \in DOMAIN categorical_vars |->
                CategoricalBlockOutcomes(df, categorical_vars[i], trts)]
    IN {DataFrameFromRows(r.status, r.rows, BaselineSchema(trts)) :
            r \in RunBlocks(blocks)}

\* ---------------------------------------------------------- population.py
\* count_by_treatment, groups in order ord
count_by_treatment(data, population_name, ord) ==
    [i \in DOMAIN ord |->
        [TRT01P |-> ord[i],
         n |-> Len(SelectSeq(data, LAMBDA r : r.TRT01P = ord[i])),
         population |-> population_name]]

CountByTreatmentOutcomes(data, population_name) ==
    {count_by_treatment(data, population_name, ord) : ord \in PlannedGroupOrders(data)}

\* the flagged populations of create_population_summary, in its order
FlaggedPopulations ==
    << [flag |-> "ITTFL", name |-> "Participants included in ITT population"],
       [flag |-> "EFFFL", name |-> "Participants included in efficacy population"],
       [flag |-> "SAFFL", name |-> "Participants included in safety population"] >>

\* every table create_population_summary may return; columns are the columns
\* of adsl
create_population_summary(df, columns) ==
    LET present == SelectSeq(FlaggedPopulations, LAMBDA p : p.flag \in columns)
    IN ConcatOutcomes(
        <<CountByTreatmentOutcomes(df, PopulationCategory)>> \o
        [k \in DOMAIN present |->
            CountByTreatmentOutcomes(
                SelectSeq(df, LAMBDA r : r[present[k].flag] = "Y"), present[k].name)])

\* the totals table a caller passes to format_population_table
Totals(counts) ==
    [i \in DOMAIN counts |-> [TRT01P |-> counts[i].TRT01A, total |-> counts[i].N]]

\* display of format_population_table
PopulationDisplay(population, n, pct) ==
    IF population = PopulationCategory THEN ToString(n)
    ELSE Format(<<ToString(n), " (", FloatToStr(pct), ")">>)

\* formatted_stats: pop_summary inner-joined with totals, with pct and display
FormattedStats(pop_summary, totals) ==
    Flatten([i \in DOMAIN pop_summary |->
        LET r == pop_summary[i]
            hits == SelectSeq(totals, LAMBDA t : t.TRT01P = r.TRT01P)
        IN [j \in DOMAIN hits |->
              LET pct == Percent(r.n, hits[j].total)
              IN [TRT01P |-> r.TRT01P, n |-> r.n, population |-> r.population,
                  total |-> hits[j].total, pct |-> pct,
                  display |-> PopulationDisplay(r.population, r.n, pct)]]])

\* pivot(values="display", index="population", on="TRT01P", maintain_order=True):
\* one row per population and one column per treatment, both in order of
\* first appearance; a missing combination is null
Pivot(stats) ==
    LET columns == UniqueStable(Column(stats, "TRT01P"))
        index == UniqueStable(Column(stats, "population"))
        Cell(p, t) ==
            LET hits == SelectSeq(stats, LAMBDA r : r.population = p /\ r.TRT01P = t)
            IN IF hits = <<>> THEN NULL ELSE hits[1].display
    IN [schema |-> <<"population">> \o columns,
        rows |-> [i \in DOMAIN index |->
                    <<index[i]>> \o [j \in DOMAIN columns |-> Cell(index[i], columns[j])]]]

format_population_table(pop_summary, totals) ==
    LET stats == FormattedStats(pop_summary, totals)
    IN [stats |-> stats] @@ Pivot(stats)

\* ------------------------------------------------------------ the inputs
\* the treatment lists a caller supplies (distinct names)
TreatmentLists ==
    { <<"Placebo">>,
      <<"Placebo", "Drug">>,
      <<"Placebo", "Drug", "High">>,
      <<"Drug", "High", "Placebo">>,
      <<"Placebo", "Drug", "High", "Low">> }

\* the population-count tables a caller supplies (columns TRT01A, N)
PopCountTables ==
    { << [TRT01A |-> "Placebo", N |-> 1], [TRT01A |-> "Drug", N |-> 0] >>,
      << [TRT01A |-> "Drug", N |-> 2], [TRT01A |-> "Placebo", N |-> 3] >>,
      << [TRT01A |-> "Placebo", N |-> 2], [TRT01A |-> "Drug", N |-> 2],
         [TRT01A |-> "High", N |-> 1] >> }

Event(subj, trt, soc, term, ser, rel, outc, acn) ==
    [USUBJID |-> subj, TRT01A |-> trt, AEBODSYS |-> soc, AEDECOD |-> term,
     AESER |-> ser, AEREL |-> rel, AEOUT |-> outc, AEACN |-> acn]

\* the adverse-event rows a dataset is made of
EventRows ==
    { Event("S1", "Placebo", "SKIN DISORDERS", "RASH", "N", "NONE", "RECOVERED", "NONE"),
      Event("S1", "Placebo", "skin disorders", "rash", "Y", "RELATED", "RECOVERED",
            "DRUG WITHDRAWN"),
      Event("S2", "Placebo", "SKIN DISORDERS", "ACNE", "Y", "POSSIBLE", "FATAL", "NONE"),
      Event("S2", "Placebo", "CARDIAC DISORDERS", "ANGINA", "N", "NONE", "RECOVERED",
            "NONE"),
      Event("S3", "Drug", "SKIN DISORDERS", "RASH", "Y", "NONE", "FATAL", "DRUG WITHDRAWN"),
      Event("S3", "Drug", "CARDIAC DISORDERS", "ANGINA", "N", "PROBABLE", "RECOVERED",
            "NONE") }

Subject(trt, age, sex, itt, eff, saf) ==
    [TRT01P |-> trt, AGE |-> age, SEX |-> sex, ITTFL |-> itt, EFFFL |-> eff,
     SAFFL |-> saf]

\* the subject rows of a dataset summarised by create_baseline_table
BaselineSubjects ==
    { Subject("Placebo", 30, "M", "Y", "Y", "Y"),
      Subject("Placebo", 40, "F", "Y", "Y", "Y"),
      Subject("Drug", 50, "F", "Y", "Y", "Y"),
      Subject("Drug", 35, NULL, "Y", "Y", "Y") }

\* the subject rows of a dataset summarised by create_population_summary
PopulationSubjects ==
    { Subject("Placebo", 30, "F", "Y", "Y", "Y"),
      Subject("Placebo", 30, "F", "N", "N", "Y"),
      Subject("Drug", 30, "F", "Y", "N", "Y"),
      Subject("Drug", 30, "F", "N", "N", "N") }

SubjectRows(r) == IF r = "baseline" THEN BaselineSubjects ELSE PopulationSubjects

\* the flag columns a subject-level dataset may carry
ColumnSets == {{"ITTFL", "EFFFL", "SAFFL"}, {"ITTFL", "SAFFL"}}

ContinuousVarLists == {<<>>, <<"AGE">>}
CategoricalVarLists == {<<>>, <<"SEX">>}

NoCall == [op |-> "none"]

\* treatment_levels: the one-column table of the supplied treatments
TreatmentLevels(trts) == [i \in DOMAIN trts |-> [TRT01A |-> trts[i]]]

InitBaseline ==
    /\ report = "baseline"
    /\ treatments \in TreatmentLists
    /\ pop_counts = <<>> /\ adsl_columns = {"ITTFL", "EFFFL", "SAFFL"}

InitSafety ==
    /\ report = "safety"
    /\ treatments \in TreatmentLists
    /\ pop_counts \in PopCountTables /\ adsl_columns = {"ITTFL", "EFFFL", "SAFFL"}

InitPopulation ==
    /\ report = "population"
    /\ treatments = <<>>
    /\ pop_counts \in PopCountTables /\ adsl_columns \in ColumnSets

Init ==
    /\ adsl = <<>> /\ adae = <<>> /\ out = NoCall
    /\ (InitBaseline \/ InitPopulation \/ InitSafety)

\* one more subject row is recorded
AddSubject ==
    /\ report \in {"baseline", "population"} /\ out = NoCall
    /\ Len(adsl) < MaxSubjects
    /\ \E r \in SubjectRows(report) : adsl' = Append(adsl, r)
    /\ UNCHANGED <<report, adsl_columns, adae, pop_counts, treatments, out>>

CreateBaselineTable ==
    /\ report = "baseline" /\ out = NoCall
    /\ \E continuous_vars \in ContinuousVarLists, categorical_vars \in CategoricalVarLists :
         \E t \in create_baseline_table(adsl, continuous_vars, categorical_vars, treatments) :
            out' = [op |-> "create_baseline_table", continuous_vars |-> continuous_vars,
                    categorical_vars |-> categorical_vars] @@ t
    /\ UNCHANGED <<report, adsl, adsl_columns, adae, pop_counts, treatments>>

SummarizeCategorical ==
    /\ report = "baseline" /\ out = NoCall
    /\ \E ord \in CategoryGroupOrders(adsl, "SEX"), ord_totals \in PlannedGroupOrders(adsl) :
          out' = [op |-> "summarize_categorical",
                  table |-> summarize_categorical(adsl, "SEX", ord, ord_totals)]
    /\ UNCHANGED <<report, adsl, adsl_columns, adae, pop_counts, treatments>>

CreatePopulationSummary ==
    /\ report = "population" /\ out = NoCall
    /\ \E t \in create_population_summary(adsl, adsl_columns) :
          out' = [op |-> "create_population_summary", table |-> t]
    /\ UNCHANGED <<report, adsl, adsl_columns, adae, pop_counts, treatments>>

FormatPopulationTable ==
    /\ report = "population" /\ out.op = "create_population_summary"
    /\ out' = [op |-> "format_population_table"] @@
              format_population_table(out.table, Totals(pop_counts))
    /\ UNCHANGED <<report, adsl, adsl_columns, adae, pop_counts, treatments>>

\* one more adverse-event row is recorded
AddEvent ==
    /\ report = "safety" /\ out = NoCall /\ Len(adae) < MaxEvents
    /\ \E e \in EventRows : adae' = Append(adae, e)
    /\ UNCHANGED <<report, adsl, adsl_columns, pop_counts, treatments, out>>

CountParticipants ==
    /\ report = "safety" /\ out = NoCall
    /\ \E condition \in Conditions :
         \E t \in CountParticipantsOutcomes(adae, TreatmentLevels(treatments), condition) :
            out' = [op |-> "count_participants", condition |-> condition, table |-> t]
    /\ UNCHANGED <<report, adsl, adsl_columns, adae, pop_counts, treatments>>

CreateAeSummary ==
    /\ report = "safety" /\ out = NoCall
    /\ \E t \in create_ae_summary(adae, pop_counts, TreatmentLevels(treatments)) :
          out' = [op |-> "create_ae_summary", table |-> t]
    /\ UNCHANGED <<report, adsl, adsl_columns, adae, pop_counts, treatments>>

FormatAeSummary ==
    /\ report = "safety" /\ out.op = "create_ae_summary"
    /\ out' = [op |-> "format_ae_summary", table |-> format_ae_summary(out.table, pop_counts)]
    /\ UNCHANGED <<report, adsl, adsl_columns, adae, pop_counts, treatments>>

CreateAeBySocTable ==
    /\ report = "safety" /\ out = NoCall
    /\ \E ord \in SocGroupOrders(adae) :
          out' = [op |-> "create_ae_by_soc_table"] @@
                 create_ae_by_soc_table(adae, pop_counts, treatments, ord)
    /\ UNCHANGED <<report, adsl, adsl_columns, adae, pop_counts, treatments>>

Next ==
    \/ AddSubject
    \/ SummarizeCategorical
    \/ CreateBaselineTable
    \/ CreatePopulationSummary
    \/ FormatPopulationTable
    \/ AddEvent
    \/ CountParticipants
    \/ CreateAeSummary
    \/ FormatAeSummary
    \/ CreateAeBySocTable

Spec == Init /\ [][Next]_vars

\* ------------------------------------------------------------ properties
\* the event rows of a treatment group that satisfy a condition
Qualifying(df, trt, condition) ==
    {i \in DOMAIN df : df[i].TRT01A = trt /\ Holds(condition, df[i])}
QualifyingSubjects(df, trt, condition) ==
    {df[i].USUBJID : i \in Qualifying(df, trt, condition)}

\* the rows of a summary that belong to one category, in order
CategoryRows(table, category) == SelectSeq(table, LAMBDA r : r.category = category)

\* C1: count_participants returns exactly one row per treatment level, in
\* treatment_levels order, with n = 0 for every level without a qualifying
\* event (and nothing for a group outside treatment_levels); each of the six
\* adverse-event categories of create_ae_summary has one row per level.
ZeroFill ==
    /\ out.op = "count_participants" =>
          /\ Column(out.table, "TRT01A") = treatments
          /\ \A i \in DOMAIN out.table :
                Qualifying(adae, treatments[i], out.condition) = {}
                    => out.table[i].n = 0
    /\ out.op = "create_ae_summary" =>
          \A k \in DOMAIN AeCategories :
             LET rows == CategoryRows(out.table, AeCategories[k].category)
             IN /\ Column(rows, "TRT01A") = treatments
                /\ \A i \in DOMAIN rows :
                      Qualifying(adae, treatments[i], AeCategories[k].condition) = {}
                          => rows[i].n = 0

\* a count over a dataset with events of two groups, in which one level is
\* zero-filled although its group has events, and another has participants
ZeroFillWitness ==
    /\ out.op = "count_participants"
    /\ \E i, j \in DOMAIN out.table :
          /\ out.table[i].n = 0 /\ out.table[j].n > 0
          /\ \E k \in DOMAIN adae : adae[k].TRT01A = out.table[i].TRT01A

\* C2: the n of count_participants is the number of distinct USUBJID with a
\* qualifying event in the group, and one more qualifying event of a subject
\* already counted in its group leaves every n as it is.
UniqueSubjectCount ==
    out.op = "count_participants" =>
       /\ \A i \in DOMAIN out.table :
             out.table[i].n =
                Cardinality(QualifyingSubjects(adae, out.table[i].TRT01A, out.condition))
       /\ \A e \in EventRows :
             ( /\ Holds(out.condition, e)
               /\ e.USUBJID \in QualifyingSubjects(adae, e.TRT01A, out.condition) )
             => CountParticipantsOutcomes(Append(adae, e), TreatmentLevels(treatments),
                                          out.condition) = {out.table}

\* a subject with two qualifying events in one group, counted once
UniqueSubjectCountWitness ==
    /\ out.op = "count_participants"
    /\ \E i \in DOMAIN out.table :
          /\ out.table[i].n = 1
          /\ Cardinality(Qualifying(adae, out.table[i].TRT01A, out.condition)) = 2

\* C3: with a population denominator of 0 (N = 0 in format_ae_summary,
\* total = 0 in format_population_table) the percentage is 0.0 for every
\* count, and the display value carries no NaN or inf.
ZeroDenominatorReportsZero ==
    /\ out.op = "format_ae_summary" =>
          \A i \in DOMAIN out.table :
             (out.table[i].category # PopulationCategory /\ out.table[i].N = SomeInt(0))
                => out.table[i].pct = Num(0) /\ out.table[i].pct_display = "(0.0)"
    /\ out.op = "format_population_table" =>
          \A i \in DOMAIN out.stats :
             out.stats[i].total = 0
                => /\ out.stats[i].pct = Num(0)
                   /\ out.stats[i].display \in
                         {ToString(out.stats[i].n), ToString(out.stats[i].n) \o " (0.0)"}

\* the rows of the percentage-bearing outputs as (count, denominator, pct)
PercentRows ==
    CASE out.op = "summarize_categorical" ->
            {[n |-> r.len, d |-> r.total, pct |-> r.pct, own |-> TRUE] :
                r \in Range(out.table)}
      [] out.op = "format_population_table" ->
            {[n |-> r.n, d |-> r.total, pct |-> r.pct, own |-> FALSE] :
                r \in Range(out.stats)}
      [] out.op = "format_ae_summary" ->
            {[n |-> r.n, d |-> r.N[1], pct |-> r.pct, own |-> FALSE] :
                r \in {x \in Range(out.table) :
                        x.category # PopulationCategory /\ x.N # NoInt}}
      [] OTHER -> {}

\* C4 as stated: every row with a denominator above 0 has 0 <= pct <= 100.
PercentageInRange ==
    \A r \in PercentRows :
        r.d > 0 => r.pct.kind = "num" /\ 0 <= r.pct.tenths /\ r.pct.tenths <= 1000

\* C4: every row with a denominator above 0 has a numeric pct >= 0, and
\* pct <= 100 whenever the count does not exceed the denominator (pct = 100
\* when they are equal); in summarize_categorical, whose denominator is the
\* group's own total, the count never exceeds it.
PercentageInRangeOfCount ==
    \A r \in PercentRows :
        r.d > 0 =>
            /\ r.pct.kind = "num" /\ 0 <= r.pct.tenths
            /\ (r.n <= r.d) => r.pct.tenths <= 1000
            /\ (r.n = r.d) => r.pct.tenths = 1000
            /\ r.own => r.n <= r.d

\* format_ae_summary acted on a group whose whole population had an event
PercentageInRangeWitness ==
    /\ out.op = "format_ae_summary"
    /\ \E r \in PercentRows : r.d > 0 /\ r.n = r.d

\* the treatment groups of the subject-level dataset
SubjectGroups == Range(Column(adsl, "TRT01P"))

\* the rows of a table whose label (first cell) is one of labels, in order
RowsLabelled(rows, labels) == SelectSeq(rows, LAMBDA r : r[1] \in labels)

CategoryLabels(var) == {Indented(v) : v \in Range(Column(adsl, var)) \ {NULL}}

\* C5: the baseline table has the columns Characteristic + treatments, in the
\* supplied order, and every row create_baseline_table emits has exactly one
\* cell per supplied treatment, whatever the length of treatments.
BaselineRowShape ==
    out.op = "create_baseline_table" =>
       /\ out.schema = <<"Characteristic">> \o treatments
       /\ \A i \in DOMAIN out.rows : Len(out.rows[i]) = 1 + Len(treatments)

\* C6: a treatment of the supplied list that has no row in the table looked
\* up gets the default and the table is still built: "0 (0.0%)" from get_value
\* in the category rows of create_baseline_table, "0" in the term rows of
\* create_ae_by_soc_table, and a built top row when the treatment is missing
\* from pop_counts.
AbsentGroupGetsDefault ==
    /\ out.op = "create_baseline_table" =>
          \A j \in DOMAIN treatments :
             treatments[j] \notin SubjectGroups =>
                \A r \in Range(RowsLabelled(out.rows, CategoryLabels("SEX"))) :
                    r[j + 1] = DefaultValue
    /\ out.op = "create_ae_by_soc_table" =>
          /\ out.status = "ok"
          /\ Len(out.rows) >= 2
          /\ out.rows[1][1] = PopulationCategory
          /\ \A j \in DOMAIN treatments :
                treatments[j] \notin Range(Column(adae, "TRT01A")) =>
                   \A i \in 3..Len(out.rows) : out.rows[i][j + 1] \in {"", "0"}

\* the populations create_population_summary counts for the columns of adsl
ExpectedPopulations ==
    {PopulationCategory} \cup
    {FlaggedPopulations[k].name :
        k \in {x \in DOMAIN FlaggedPopulations : FlaggedPopulations[x].flag \in adsl_columns}}

\* C7: in the formatted population table every population row has a display
\* value for every treatment group of the dataset; a group with nobody in a
\* flagged population is neither a missing cell nor a dropped row or column.
PopulationTableComplete ==
    out.op = "format_population_table" =>
       \A g \in SubjectGroups :
          /\ g \in Range(Tail(out.schema))
          /\ \A p \in ExpectedPopulations :
                \E i \in DOMAIN out.rows :
                   /\ out.rows[i][1] = p
                   /\ \A j \in DOMAIN out.rows[i] : out.rows[i][j] # NULL

\* the table part of an outcome
TableOf(t) == [schema |-> t.schema, rows |-> t.rows]

\* C8: for one input each table builder yields one table: every order in
\* which the group-by aggregations may return their groups gives the rows,
\* row order and treatment columns of the table that was built.
DeterministicTables ==
    /\ out.op = "create_baseline_table" =>
          \A t \in create_baseline_table(adsl, out.continuous_vars,
                                         out.categorical_vars, treatments) :
             TableOf(t) = TableOf(out) /\ t.status = out.status
    /\ out.op = "create_ae_by_soc_table" =>
          \A ord \in SocGroupOrders(adae) :
             LET t == create_ae_by_soc_table(adae, pop_counts, treatments, ord)
             IN TableOf(t) = TableOf(out) /\ t.status = out.status
    /\ out.op = "format_population_table" =>
          \A summary \in create_population_summary(adsl, adsl_columns) :
             TableOf(format_population_table(summary, Totals(pop_counts))) = TableOf(out)

\* the first row of df in which var has value v
FirstOccurrence(df, var, v) == CHOOSE i \in DOMAIN df :
    df[i][var] = v /\ \A k \in 1..(i - 1) : df[k][var] # v

\* C9: the category rows of a categorical block are the observed non-null
\* categories, each once, in the order of their first occurrence in the
\* subject-level dataset, whatever the treatments list and the group orders.
CategoryRowsInFirstOccurrenceOrder ==
    (out.op = "create_baseline_table" /\ <<title("SEX"), "", "", "">> \in Range(out.rows)) =>
       LET labels == Column(RowsLabelled(out.rows, CategoryLabels("SEX")), 1)
           observed == Range(Column(adsl, "SEX")) \ {NULL}
       IN /\ Len(labels) = Cardinality(observed)
          /\ Range(labels) = {Indented(v) : v \in observed}
          /\ \A v, w \in observed :
                FirstOccurrence(adsl, "SEX", v) < FirstOccurrence(adsl, "SEX", w)
                => \E a, b \in DOMAIN labels :
                      a < b /\ labels[a] = Indented(v) /\ labels[b] = Indented(w)

\* a returned table whose categories first occur in an order that is not the
\* alphabetical one, in two treatment groups, after a null
CategoryRowsWitness ==
    /\ out.op = "create_baseline_table" /\ out.status = "ok"
    /\ out.categorical_vars = <<"SEX">>
    /\ Len(adsl) = 3 /\ adsl[1].SEX = NULL /\ adsl[2].SEX = "M" /\ adsl[3].SEX = "F"
    /\ adsl[2].TRT01P # adsl[3].TRT01P
    /\ Column(RowsLabelled(out.rows, CategoryLabels("SEX")), 1) = <<"  M", "  F">>

\* the title-cased SOCs and terms of the events, and the subjects behind a count
SocsOf(df) == {to_titlecase(df[i].AEBODSYS) : i \in DOMAIN df}
TermsOf(df, soc) ==
    {to_titlecase(df[i].AEDECOD) : i \in {k \in DOMAIN df : to_titlecase(df[k].AEBODSYS) = soc}}
TermSubjects(df, soc, term, trt) ==
    {df[i].USUBJID : i \in {k \in DOMAIN df :
        /\ to_titlecase(df[k].AEBODSYS) = soc /\ to_titlecase(df[k].AEDECOD) = term
        /\ df[k].TRT01A = trt}}

\* the layout C10 describes, for a table that was returned
SocLayout(rows) ==
    LET socs == SortStrings(SocsOf(adae))
        Block(soc) ==
            LET terms == SortStrings(TermsOf(adae, soc))
            IN << <<soc>> \o Blanks(Len(treatments)) >> \o
               [k \in DOMAIN terms |->
                  <<"  " \o terms[k]>> \o
                  [j \in DOMAIN treatments |->
                     ToString(Cardinality(TermSubjects(adae, soc, terms[k], treatments[j])))]]
    IN /\ Len(rows) >= 2
       /\ rows[1][1] = PopulationCategory
       /\ \A j \in DOMAIN treatments :
             \E c \in Range(pop_counts) :
                c.TRT01A = treatments[j] /\ rows[1][j + 1] = ToString(c.N)
       /\ rows[2] = Blanks(Len(treatments) + 1)
       /\ SubSeq(rows, 3, Len(rows)) = Flatten([k \in DOMAIN socs |-> Block(socs[k])])
       /\ \A k \in DOMAIN socs : TermsOf(adae, socs[k]) # {}
       /\ \A k \in 1..(Len(socs) - 1) : StrLess(socs[k], socs[k + 1])

\* C10: create_ae_by_soc_table emits the population-count row, the blank
\* row, then per title-cased SOC in ascending order a header row followed by
\* one indented row per title-cased term in ascending order, each with the
\* unique-subject count per treatment in the supplied order and "0" where a
\* term has no event in a treatment.
SocTableLayout ==
    out.op = "create_ae_by_soc_table" => out.status = "ok" /\ SocLayout(out.rows)

\* the layout of every table create_ae_by_soc_table does return
SocTableLayoutWhenReturned ==
    (out.op = "create_ae_by_soc_table" /\ out.status = "ok") => SocLayout(out.rows)

\* the AGE values of a treatment group of the subject-level dataset, in order
GroupValues(trt) == Column(SelectSeq(adsl, LAMBDA r : r.TRT01P = trt), "AGE")

\* the rows of the built table labelled "  Median [Min, Max]"
MedianRows == RowsLabelled(out.rows, {"  Median [Min, Max]"})

\* the subject-level dataset of Scenario A: AGE 30 and 40 for Placebo, 50 for Drug
ScenarioA ==
    /\ treatments = <<"Placebo", "Drug">>
    /\ Len(adsl) = 3
    /\ GroupValues("Placebo") = <<30, 40>> /\ GroupValues("Drug") = <<50>>

\* "m [lo, hi]" with lo and hi the least and greatest of xs and m a middle
\* value of xs: at most half of the values lie below it and at most half above
IsMedianRange(cell, xs) ==
    \E m \in Range(xs) :
        /\ 2 * Cardinality({i \in DOMAIN xs : xs[i] < m}) <= Len(xs)
        /\ 2 * Cardinality({i \in DOMAIN xs : xs[i] > m}) <= Len(xs)
        /\ \E lo, hi \in Range(xs) :
              /\ \A i \in DOMAIN xs : lo <= xs[i] /\ xs[i] <= hi
              /\ cell = ToString(m) \o ".0 [" \o ToString(lo) \o ", "
                            \o ToString(hi) \o "]"

\* C11: the continuous block of create_baseline_table has one
\* Median [Min, Max] row that shows, per treatment in the supplied order, the
\* group's median, minimum and maximum, a group of two values reporting one
\* of them as its median; for Scenario A the row is "30.0 [30, 40]" for
\* Placebo and "50.0 [50, 50]" for Drug.
MedianRangeRow ==
    (out.op = "create_baseline_table" /\ out.continuous_vars = <<"AGE">>) =>
       /\ out.status = "ok"
       /\ Len(MedianRows) = 1
       /\ Len(MedianRows[1]) = 1 + Len(treatments)
       /\ \A j \in DOMAIN treatments :
             GroupValues(treatments[j]) # <<>> =>
                IsMedianRange(MedianRows[1][j + 1], GroupValues(treatments[j]))
       /\ ScenarioA =>
             MedianRows[1] = <<"  Median [Min, Max]", "30.0 [30, 40]", "50.0 [50, 50]">>

\* the lower and the upper middle value of xs
LowerMiddle(xs) == CHOOSE a \in Range(xs) :
    /\ 2 * Cardinality({i \in DOMAIN xs : xs[i] < a}) < Len(xs)
    /\ 2 * Cardinality({i \in DOMAIN xs : xs[i] <= a}) >= Len(xs)
UpperMiddle(xs) == CHOOSE b \in Range(xs) :
    /\ 2 * Cardinality({i \in DOMAIN xs : xs[i] <= b}) > Len(xs)
    /\ 2 * Cardinality({i \in DOMAIN xs : xs[i] < b}) <= Len(xs)

\* the median/range display of a group as polars computes it: the mean of the
\* two middle values with one decimal, then the least and the greatest value
MedianRangeOf(xs) ==
    LET m == 5 * (LowerMiddle(xs) + UpperMiddle(xs))
    IN ToString(m \div 10) \o "." \o ToString(m % 10) \o " ["
       \o ToString(CHOOSE lo \in Range(xs) : \A i \in DOMAIN xs : lo <= xs[i]) \o ", "
       \o ToString(CHOOSE hi \in Range(xs) : \A i \in DOMAIN xs : xs[i] <= hi) \o "]"

\* every table create_baseline_table returns with a continuous block has one
\* Median [Min, Max] row, with the display MedianRangeOf for the treatments
\* that have subjects and a blank cell for the others
MedianRangeRowWhenReturned ==
    ( /\ out.op = "create_baseline_table" /\ out.continuous_vars = <<"AGE">>
      /\ out.status = "ok" ) =>
       /\ Len(MedianRows) = 1
       /\ MedianRows[1] = <<"  Median [Min, Max]">> \o
             [j \in DOMAIN treatments |->
                IF GroupValues(treatments[j]) = <<>> THEN ""
                ELSE MedianRangeOf(GroupValues(treatments[j]))]

\* Scenario A never returns a table: the Drug group of one subject has no
\* standard deviation, so its Mean (SD) value is null and the row cannot be built
ScenarioARaises ==
    ( /\ out.op = "create_baseline_table" /\ out.continuous_vars = <<"AGE">>
      /\ ScenarioA ) =>
       /\ out.status = "AttributeError"
       /\ MedianRows = <<>>

====
